---- MODULE Spec2Model ----
(***************************************************************************)
(* Bootstrap of the automation-framework management service.  The          *)
(* repository holds eight variants of one composition root: each creates   *)
(* an application object, attaches four route groups and starts an HTTP    *)
(* listener.  A behaviour of this module is one process run of one         *)
(* variant, statement by statement.  Imports are taken to resolve.         *)
(*                                                                         *)
(* Three files (api_provider.py, services/__init__.py and                  *)
(* tests/unit/__init__.py) open with a line that only names a path         *)
(* ("src/main.py:").  Read as Python that line stops the interpreter       *)
(* before anything else runs; read as a marker of the file listing it is   *)
(* skipped.  The model admits both: statement "header" either fails or is  *)
(* passed over.                                                            *)
(***************************************************************************)
EXTENDS Integers, Sequences, FiniteSets, TLC

VARIABLES variant, ip, appCreated, corsEnabled, configLoaded, config,
          loggerReady, mounts, runner, log, startAttempts, bind, listener,
          pending, raisedAt, exitCode, served, lastPath, response

vars == <<variant, ip, appCreated, corsEnabled, configLoaded, config,
          loggerReady, mounts, runner, log, startAttempts, bind, listener,
          pending, raisedAt, exitCode, served, lastPath, response>>

\* Number of requests one run of the listener serves in the model.
MaxRequests == 2

(***************************************************************************)
(* The variants and their statement sequences                              *)
(***************************************************************************)
Variants == {"main", "common_types", "api_provider", "services",
             "auth", "setup", "test_parser", "tests_init"}

\* The route groups in the order every variant imports and attaches them.
GroupOrder == <<"scenarios", "executions", "data_providers", "ai_services">>

Groups == {GroupOrder[i] : i \in 1..Len(GroupOrder)}

\* Mutant: the success message is logged before app.run is called.
MainProgram_EarlySuccess ==
    <<"app", "cors", "config", "logger",
      "attach", "attach", "attach", "attach",
      "info_starting", "read_bind", "info_started", "run", "end">>

\* src/main.py, module level (lines 13-27) then start_management_service.
MainProgram ==
    <<"app", "cors", "config", "logger",
      "attach", "attach", "attach", "attach",
      "info_starting", "read_bind", "run", "info_started", "end">>

\* Mutant: the listener is started before runner.initialize().
CommonTypesProgram_RunFirst ==
    <<"app", "attach", "attach", "attach", "attach",
      "runner_new", "run", "runner_init", "end">>

\* src/types/common_types.py
CommonTypesProgram ==
    <<"app", "attach", "attach", "attach", "attach",
      "runner_new", "runner_init", "run", "end">>

\* src/providers/api_provider.py: __main__ calls create_app() and then run.
ApiProviderProgram ==
    <<"header", "app", "attach", "attach", "attach", "attach", "run", "end">>

\* src/services/__init__.py
ServicesProgram ==
    <<"header", "app", "attach", "attach", "attach", "attach",
      "logger", "info_starting", "run", "end">>

\* Mutant: the start call is issued a second time.
AuthProgram_TwoRuns ==
    <<"app", "attach", "attach", "attach", "attach", "run", "run", "end">>

\* src/api/middleware/auth.py
AuthProgram ==
    <<"app", "attach", "attach", "attach", "attach", "run", "end">>

\* Mutant: the listener is started before the last route group is attached.
SetupProgram_RunEarly ==
    <<"app", "attach", "attach", "attach", "run", "attach", "end">>

\* scripts/setup.py
SetupProgram ==
    <<"app", "attach", "attach", "attach", "attach", "run", "end">>

\* tests/unit/test_parser.py
TestParserProgram ==
    <<"app", "attach", "attach", "attach", "attach", "run", "end">>

\* tests/unit/__init__.py
TestsInitProgram ==
    <<"header", "app", "logger", "attach", "attach", "attach", "attach", "run", "end">>

Program(v) ==
    CASE v = "main"         -> MainProgram
      [] v = "common_types" -> CommonTypesProgram
      [] v = "api_provider" -> ApiProviderProgram
      [] v = "services"     -> ServicesProgram
      [] v = "auth"         -> AuthProgram
      [] v = "setup"        -> SetupProgram
      [] v = "test_parser"  -> TestParserProgram
      [] v = "tests_init"   -> TestsInitProgram

\* The statement the process is at; "exited" once the process has terminated.
Stmt == IF ip \in 1..Len(Program(variant)) THEN Program(variant)[ip] ELSE "exited"

\* Mutant: main.py calls app.run after the try block instead of inside it.
TryBody_NoHandler(v) ==
    CASE v = "main"       -> {"info_starting", "read_bind"}
      [] v = "services"   -> {"run"}
      [] v = "tests_init" -> {"run"}
      [] OTHER            -> {}

\* Mutant: services/__init__.py calls app.run outside any try block.
TryBody_NoServices(v) ==
    CASE v = "main"       -> {"info_starting", "read_bind", "run", "info_started"}
      [] v = "tests_init" -> {"run"}
      [] OTHER            -> {}

\* Mutant: the try block of main.py also encloses the module-level setup.
TryBody_Wide(v) ==
    CASE v = "main"       -> {"config", "logger", "attach",
                              "info_starting", "read_bind", "run", "info_started"}
      [] v = "services"   -> {"run"}
      [] v = "tests_init" -> {"run"}
      [] OTHER            -> {}

\* The statements enclosed by the try block of each variant.
TryBody(v) ==
    CASE v = "main"       -> {"info_starting", "read_bind", "run", "info_started"}
      [] v = "services"   -> {"run"}
      [] v = "tests_init" -> {"run"}
      [] OTHER            -> {}

\* The web framework a variant builds its application on.
Framework(v) == IF v \in {"auth", "setup", "test_parser"} THEN "fastapi" ELSE "flask"

(***************************************************************************)
(* Route mounting and dispatch                                             *)
(***************************************************************************)
\* A URL path is the sequence of its segments: "/api/v1/ai" is <<"api","v1","ai">>.
MainPrefix(g) ==
    CASE g = "scenarios"      -> <<"api", "v1", "scenarios">>
      [] g = "executions"     -> <<"api", "v1", "executions">>
      [] g = "data_providers" -> <<"api", "v1", "data-providers">>
      [] g = "ai_services"    -> <<"api", "v1", "ai">>

\* Mutant: two routers share one prefix.
AuthPrefix_Duplicate(g) ==
    CASE g = "scenarios"      -> <<"scenarios">>
      [] g = "executions"     -> <<"executions">>
      [] g = "data_providers" -> <<"scenarios">>
      [] g = "ai_services"    -> <<"ai-services">>

AuthPrefix(g) ==
    CASE g = "scenarios"      -> <<"scenarios">>
      [] g = "executions"     -> <<"executions">>
      [] g = "data_providers" -> <<"data-providers">>
      [] g = "ai_services"    -> <<"ai-services">>

\* The prefix under which variant v attaches group g; <<>> is "no prefix".
MountPrefix(v, g) ==
    CASE v = "main" -> MainPrefix(g)
      [] v = "auth" -> AuthPrefix(g)
      [] OTHER      -> <<>>

IsPrefixOf(p, path) ==
    /\ Len(p) <= Len(path)
    /\ \A i \in 1..Len(p) : p[i] = path[i]

\* The request paths the model sends.
Paths == { <<>>, <<"health">>,
           <<"scenarios">>, <<"executions">>, <<"data-providers">>, <<"ai-services">>,
           <<"api", "v1", "scenarios">>, <<"api", "v1", "executions">>,
           <<"api", "v1", "data-providers">>, <<"api", "v1", "ai">>,
           <<"api", "v1", "ai-services">>, <<"api", "v1", "ai", "models">> }

\* Mutant: the health payload reports another status word.
HealthPayload_Ok ==
    << <<"status", "ok">>, <<"service", "automation-framework-management">> >>

\* A response body is a sequence of key/value pairs; <<>> stands for a body
\* the source does not define.
HealthPayload ==
    << <<"status", "healthy">>, <<"service", "automation-framework-management">> >>

\* health_check of src/main.py: a dict return is a JSON answer with status 200.
health_check == [handler |-> "health_check", status |-> 200, body |-> HealthPayload]

\* index of src/types/common_types.py
index == [handler |-> "index", status |-> 200,
          body |-> << <<"text", "Welcome to the Management Service!">> >>]

NotFound == [handler |-> "none", status |-> 404, body |-> <<>>]

NoResponse == [handler |-> "none", status |-> 0, body |-> <<>>]

\* The route groups whose mount prefix covers the path.
GroupsCovering(ms, path) ==
    { ms[i].group : i \in { j \in 1..Len(ms) : IsPrefixOf(ms[j].prefix, path) } }

\* The routes the application itself defines next to the route groups.
AppRoute(v, path) ==
    IF v = "main" /\ path = <<"health">> THEN {health_check}
    ELSE IF v = "common_types" /\ path = <<>> THEN {index}
    ELSE {}

\* The answers a request for path can get.  The handlers of the route groups
\* are not part of the sources: a covering group either answers or has no
\* rule for the path.
Answers(v, ms, path) ==
    LET gs == GroupsCovering(ms, path)
        groupAnswers == { [handler |-> g, status |-> 200, body |-> <<>>] : g \in gs }
    IN  IF gs = {} /\ AppRoute(v, path) = {} THEN {NotFound}
        ELSE IF gs = {} THEN AppRoute(v, path)
        ELSE groupAnswers \cup AppRoute(v, path) \cup {NotFound}

(***************************************************************************)
(* Configuration, logger, listener address                                 *)
(***************************************************************************)
\* A configuration value is <<>> when the key is missing and <<x>> when set.
ConfigValues ==
    { [host |-> h, port |-> p] : h \in {<<>>, <<"0.0.0.0">>, <<"127.0.0.1">>},
                                 p \in {<<>>, <<8000>>, <<8080>>} }

EmptyConfig == [host |-> <<>>, port |-> <<>>]

\* Config.get(key, default)
ConfigGet(value, default) == IF value = <<>> THEN default ELSE value[1]

\* Flask.run() without host and port serves on the framework's own default.
FlaskRunDefault == [host |-> "127.0.0.1", port |-> 5000]

\* Mutant: main.py falls back to the framework's default address.
RunBind_FrameworkDefault(v, cfg) ==
    IF v = "main"
    THEN [host |-> ConfigGet(cfg.host, "127.0.0.1"), port |-> ConfigGet(cfg.port, 5000)]
    ELSE IF Framework(v) = "fastapi"
    THEN [host |-> "0.0.0.0", port |-> 8000]
    ELSE FlaskRunDefault

\* The address the listener-start call of variant v asks for.
RunBind(v, cfg) ==
    IF v = "main"
    THEN [host |-> ConfigGet(cfg.host, "0.0.0.0"), port |-> ConfigGet(cfg.port, 8000)]
    ELSE IF Framework(v) = "fastapi"
    THEN [host |-> "0.0.0.0", port |-> 8000]
    ELSE FlaskRunDefault

Unbound == [host |-> "", port |-> 0]

StartingMessage(v) ==
    IF v = "main" THEN "Starting automation framework management service..."
    ELSE "Starting Management Service..."

StartedMessage == "Management service started successfully."

ErrorMessage(v) ==
    CASE v = "main"       -> "Failed to start management service"
      [] v = "services"   -> "Error starting the service"
      [] v = "tests_init" -> "Failed to start the management service"
      [] OTHER            -> ""

\* Logger.info / Logger.error, when they return, have recorded the line.
LoggerInfo(lg, msg) == Append(lg, [level |-> "info", msg |-> msg])

LoggerError(lg, msg) == Append(lg, [level |-> "error", msg |-> msg])

\* Status passed to sys.exit by the except clause.
HandlerExitStatus == 1

\* exitCode is <<>> while the process lives and <<status>> once it has ended.
NotExited == <<>>

(***************************************************************************)
(* Initial state: the interpreter is about to run one variant              *)
(***************************************************************************)
Init ==
    /\ variant \in Variants
    /\ ip = 1
    /\ appCreated = FALSE
    /\ corsEnabled = FALSE
    /\ configLoaded = FALSE
    /\ config = EmptyConfig
    /\ loggerReady = FALSE
    /\ mounts = <<>>
    /\ runner = "none"
    /\ log = <<>>
    /\ startAttempts = 0
    /\ bind = Unbound
    /\ listener = "idle"
    /\ pending = "none"
    /\ raisedAt = "none"
    /\ exitCode = NotExited
    /\ served = 0
    /\ lastPath = <<>>
    /\ response = NoResponse

\* The process is alive and no exception is propagating.
Running == exitCode = NotExited /\ pending = "none"

appVars == <<appCreated, corsEnabled, configLoaded, config, loggerReady, mounts, runner>>

runVars == <<startAttempts, bind, listener>>

excVars == <<pending, raisedAt, exitCode>>

reqVars == <<served, lastPath, response>>

(***************************************************************************)
(* Composition: one action per statement                                   *)
(***************************************************************************)
\* The opening path line of three files, read as a marker and passed over.
SkipHeader ==
    /\ Running /\ Stmt = "header"
    /\ ip' = ip + 1
    /\ UNCHANGED <<variant, appVars, log, runVars, excVars, reqVars>>

\* app = Flask(__name__) / app = FastAPI()
CreateApp ==
    /\ Running /\ Stmt = "app"
    /\ appCreated' = TRUE
    /\ ip' = ip + 1
    /\ UNCHANGED <<variant, corsEnabled, configLoaded, config, loggerReady, mounts,
                   runner, log, runVars, excVars, reqVars>>

\* CORS(app)
EnableCors ==
    /\ Running /\ Stmt = "cors"
    /\ corsEnabled' = TRUE
    /\ ip' = ip + 1
    /\ UNCHANGED <<variant, appCreated, configLoaded, config, loggerReady, mounts,
                   runner, log, runVars, excVars, reqVars>>

\* config = Config(): the settings are whatever the environment provides.
LoadConfig ==
    /\ Running /\ Stmt = "config"
    /\ \E c \in ConfigValues : config' = c
    /\ configLoaded' = TRUE
    /\ ip' = ip + 1
    /\ UNCHANGED <<variant, appCreated, corsEnabled, loggerReady, mounts,
                   runner, log, runVars, excVars, reqVars>>

\* logger = Logger()
InitLogger ==
    /\ Running /\ Stmt = "logger"
    /\ loggerReady' = TRUE
    /\ ip' = ip + 1
    /\ UNCHANGED <<variant, appCreated, corsEnabled, configLoaded, config, mounts,
                   runner, log, runVars, excVars, reqVars>>

\* app.register_blueprint(...) / app.include_router(...): the k-th attach
\* statement of a variant attaches the k-th route group.
AttachRouteGroup ==
    /\ Running /\ Stmt = "attach"
    /\ Len(mounts) < Len(GroupOrder)
    /\ LET g == GroupOrder[Len(mounts) + 1]
       IN  mounts' = Append(mounts, [group |-> g, prefix |-> MountPrefix(variant, g)])
    /\ ip' = ip + 1
    /\ UNCHANGED <<variant, appCreated, corsEnabled, configLoaded, config, loggerReady,
                   runner, log, runVars, excVars, reqVars>>

\* runner = Runner()
NewRunner ==
    /\ Running /\ Stmt = "runner_new"
    /\ runner' = "constructed"
    /\ ip' = ip + 1
    /\ UNCHANGED <<variant, appCreated, corsEnabled, configLoaded, config, loggerReady,
                   mounts, log, runVars, excVars, reqVars>>

\* runner.initialize()
InitializeRunner ==
    /\ Running /\ Stmt = "runner_init"
    /\ runner = "constructed"
    /\ runner' = "initialized"
    /\ ip' = ip + 1
    /\ UNCHANGED <<variant, appCreated, corsEnabled, configLoaded, config, loggerReady,
                   mounts, log, runVars, excVars, reqVars>>

\* logger.info("Starting ...")
LogStarting ==
    /\ Running /\ Stmt = "info_starting"
    /\ log' = LoggerInfo(log, StartingMessage(variant))
    /\ ip' = ip + 1
    /\ UNCHANGED <<variant, appVars, runVars, excVars, reqVars>>

(***************************************************************************)
(* The listener                                                            *)
(***************************************************************************)
\* main.py evaluates the three config.get arguments of app.run.
ReadBind ==
    /\ Running /\ Stmt = "read_bind"
    /\ bind' = RunBind(variant, config)
    /\ ip' = ip + 1
    /\ UNCHANGED <<variant, appVars, log, startAttempts, listener, excVars, reqVars>>

\* app.run(...) / uvicorn.run(...) is entered.
StartListener ==
    /\ Running /\ Stmt = "run"
    /\ listener \notin {"starting", "running"}
    /\ startAttempts' = startAttempts + 1
    /\ bind' = IF variant = "main" THEN bind ELSE RunBind(variant, config)
    /\ listener' = "starting"
    /\ UNCHANGED <<variant, ip, appVars, log, excVars, reqVars>>

\* The socket is bound and the listener accepts requests.
ListenerUp ==
    /\ Running /\ listener = "starting"
    /\ listener' = "running"
    /\ UNCHANGED <<variant, ip, appVars, log, startAttempts, bind, excVars, reqVars>>

\* The running listener answers one request.
ServeRequest ==
    /\ Running /\ listener = "running"
    /\ served < MaxRequests
    /\ \E path \in Paths :
         \E r \in Answers(variant, mounts, path) :
            /\ lastPath' = path
            /\ response' = r
    /\ served' = served + 1
    /\ UNCHANGED <<variant, ip, appVars, log, runVars, excVars>>

\* The run call raises an Exception, at bind time or while serving.
ListenerRaises ==
    /\ Running /\ listener \in {"starting", "running"}
    /\ listener' = "failed"
    /\ pending' = "Exception"
    /\ raisedAt' = "run"
    /\ UNCHANGED <<variant, ip, appVars, log, startAttempts, bind, exitCode, reqVars>>

\* The run call returns normally (the server was shut down).
ListenerReturns ==
    /\ Running /\ listener = "running"
    /\ listener' = "stopped"
    /\ ip' = ip + 1
    /\ UNCHANGED <<variant, appVars, log, startAttempts, bind, excVars, reqVars>>

\* logger.info("Management service started successfully.")
LogStarted ==
    /\ Running /\ Stmt = "info_started"
    /\ log' = LoggerInfo(log, StartedMessage)
    /\ ip' = ip + 1
    /\ UNCHANGED <<variant, appVars, runVars, excVars, reqVars>>

\* The script runs off its end: the interpreter exits with status 0.
ProcessEnd ==
    /\ Running /\ Stmt = "end"
    /\ exitCode' = <<0>>
    /\ ip' = 0
    /\ UNCHANGED <<variant, appVars, log, runVars, pending, raisedAt, reqVars>>

(***************************************************************************)
(* Exceptions                                                              *)
(***************************************************************************)
\* The statements that call into code outside the variant (constructors,
\* registration, Config.get, Logger.info, Runner) and so may raise before they
\* take effect, and the opening path line read as Python.  Logger.error, the
\* sink the except clause itself relies on, is taken to record its line.
RaisingStmts == {"header", "app", "cors", "config", "logger", "attach", "runner_new",
                 "runner_init", "info_starting", "read_bind", "info_started"}

StatementRaises ==
    /\ Running /\ Stmt \in RaisingStmts
    /\ pending' = "Exception"
    /\ raisedAt' = Stmt
    /\ UNCHANGED <<variant, ip, appVars, log, runVars, exitCode, reqVars>>

\* except Exception as e: logger.error(f"...: {e}")
ExceptLogError ==
    /\ pending = "Exception"
    /\ Stmt \in TryBody(variant)
    /\ log' = LoggerError(log, ErrorMessage(variant))
    /\ pending' = "handling"
    /\ UNCHANGED <<variant, ip, appVars, runVars, raisedAt, exitCode, reqVars>>

\* sys.exit(1), the last statement of the except clause
ExceptExit ==
    /\ pending = "handling"
    /\ exitCode' = <<HandlerExitStatus>>
    /\ pending' = "handled"
    /\ ip' = 0
    /\ UNCHANGED <<variant, appVars, log, runVars, raisedAt, reqVars>>

\* No try block encloses the raising statement: the interpreter prints the
\* traceback and ends the process with status 1; no logger is involved.
UncaughtException ==
    /\ pending = "Exception"
    /\ Stmt \notin TryBody(variant)
    /\ exitCode' = <<1>>
    /\ pending' = "uncaught"
    /\ ip' = 0
    /\ UNCHANGED <<variant, appVars, log, runVars, raisedAt, reqVars>>

Next ==
    \/ SkipHeader
    \/ CreateApp
    \/ EnableCors
    \/ LoadConfig
    \/ InitLogger
    \/ AttachRouteGroup
    \/ NewRunner
    \/ InitializeRunner
    \/ LogStarting
    \/ ReadBind
    \/ StartListener
    \/ ListenerUp
    \/ ServeRequest
    \/ ListenerRaises
    \/ ListenerReturns
    \/ LogStarted
    \/ ProcessEnd
    \/ StatementRaises
    \/ ExceptLogError
    \/ ExceptExit
    \/ UncaughtException

Spec == Init /\ [][Next]_vars

TypeOK ==
    /\ variant \in Variants
    /\ ip \in 0..Len(Program(variant))
    /\ startAttempts \in 0..1
    /\ served \in 0..MaxRequests
    /\ listener \in {"idle", "starting", "running", "stopped", "failed"}
    /\ pending \in {"none", "Exception", "handling", "handled", "uncaught"}


(***************************************************************************)
(* Properties                                                              *)
(***************************************************************************)
\* The variants whose listener start is wrapped in try/except.
HandlerVariants == {"main", "services", "tests_init"}

NumErrors(lg) == Cardinality({ i \in 1..Len(lg) : lg[i].level = "error" })

Logged(lg, level, msg) == \E i \in 1..Len(lg) : lg[i] = [level |-> level, msg |-> msg]

Exited == exitCode # NotExited

DefaultAddress == [host |-> "0.0.0.0", port |-> 8000]

\* C1: in main.py, services/__init__.py and tests/unit/__init__.py, once the
\* run call has raised an Exception at most one error line is ever logged,
\* the only way on is the except clause, the process ends with status 1 and
\* by then exactly one error line has been written (the log precedes the exit).
C1_FailedStartLogsThenExits1 ==
    (variant \in HandlerVariants /\ listener = "failed") =>
        /\ NumErrors(log) <= 1
        /\ pending \in {"Exception", "handling", "handled"}
        /\ (pending = "Exception" => NumErrors(log) = 0 /\ ~Exited)
        /\ (pending = "handling" => NumErrors(log) = 1 /\ ~Exited)
        /\ (pending = "handled" => NumErrors(log) = 1 /\ exitCode = <<1>>)
        /\ (Exited => exitCode = <<1>> /\ NumErrors(log) = 1)

C1_Witness ==
    /\ variant = "main"
    /\ listener = "failed"
    /\ exitCode = <<1>>
    /\ NumErrors(log) = 1

\* C2 as stated: in every variant a failed start ends with one logged error
\* and exit status 1.
C2_EveryVariantLogsError ==
    (listener = "failed" /\ Exited) => (NumErrors(log) = 1 /\ exitCode = <<1>>)

\* C2 amended: a failed start ends the process with status 1 in every
\* variant, but an error line is logged only by the three variants with a
\* handler; the variants that call run directly from __main__ log nothing.
C2_OnlyHandlerVariantsLog ==
    (listener = "failed" /\ Exited) =>
        /\ exitCode = <<1>>
        /\ NumErrors(log) = (IF variant \in HandlerVariants THEN 1 ELSE 0)

C2_Witness ==
    /\ variant = "setup"
    /\ listener = "failed"
    /\ exitCode = <<1>>
    /\ log = <<>>

\* C3: in main.py every request for /health handled by the running listener
\* is answered 200 with the literal payload, whatever was requested before
\* and whatever the configuration is, and handling it changes nothing but
\* the request bookkeeping.
C3_HealthIsStatic ==
    [][ (variant = "main" /\ served' = served + 1 /\ lastPath' = <<"health">>) =>
           /\ listener = "running"
           /\ response'.status = 200
           /\ response'.body = << <<"status", "healthy">>,
                                  <<"service", "automation-framework-management">> >>
           /\ UNCHANGED <<ip, appVars, log, runVars, excVars>> ]_vars

C3_Witness ==
    /\ variant = "main"
    /\ served = 2
    /\ lastPath = <<"health">>
    /\ response.status = 200
    /\ config.port = <<8080>>

\* C4: in every variant the groups attached so far are an initial part of
\* scenarios, executions, data providers, AI services, attached to a created
\* application; the listener is started only with all four attached, and no
\* group is attached once the start has been attempted.
C4_BootstrapOrder ==
    /\ [](/\ Len(mounts) <= 4
          /\ \A i \in 1..Len(mounts) :
                mounts[i].group =
                   <<"scenarios", "executions", "data_providers", "ai_services">>[i]
          /\ (Len(mounts) > 0 => appCreated)
          /\ (listener # "idle" => startAttempts > 0)
          /\ (startAttempts > 0 => appCreated /\ Len(mounts) = 4))
    /\ [][startAttempts > 0 => mounts' = mounts]_vars

C4_Witness ==
    /\ variant = "setup"
    /\ listener = "running"
    /\ Len(mounts) = 4

\* C5 as stated: with no host/port from configuration every variant starts
\* its listener on 0.0.0.0:8000.
C5_EveryVariantDefaultAddress ==
    startAttempts > 0 =>
        IF variant = "main"
        THEN /\ (config.host = <<>> => bind.host = "0.0.0.0")
             /\ (config.port = <<>> => bind.port = 8000)
        ELSE bind = DefaultAddress

\* C5 amended: main.py falls back to 0.0.0.0 and 8000 for a missing key and
\* the three uvicorn variants pass 0.0.0.0:8000; the four Flask variants that
\* call app.run(debug=True) pass no address and get Flask's 127.0.0.1:5000.
C5_DefaultAddressByVariant ==
    startAttempts > 0 =>
        CASE variant = "main" ->
                /\ (config.host = <<>> => bind.host = "0.0.0.0")
                /\ (config.port = <<>> => bind.port = 8000)
                /\ (config.host # <<>> => bind.host = config.host[1])
                /\ (config.port # <<>> => bind.port = config.port[1])
          [] variant \in {"auth", "setup", "test_parser"} -> bind = DefaultAddress
          [] OTHER -> bind = [host |-> "127.0.0.1", port |-> 5000]

C5_Witness ==
    /\ variant = "main"
    /\ listener = "running"
    /\ config = [host |-> <<>>, port |-> <<>>]
    /\ bind = DefaultAddress

\* C6: a run contains at most one start attempt; after a failed start the
\* exception is propagating or handled, so nothing but the except clause or
\* the end of the process can follow.
C6_AtMostOneStart ==
    /\ startAttempts <= 1
    /\ (listener = "failed" => startAttempts = 1 /\ pending # "none")

C6_Witness ==
    /\ variant = "main"
    /\ listener = "failed"
    /\ startAttempts = 1
    /\ exitCode = <<1>>

\* The four names of the route groups as URL segments.
C7_Name(g) ==
    CASE g = "scenarios"      -> "scenarios"
      [] g = "executions"     -> "executions"
      [] g = "data_providers" -> "data-providers"
      [] g = "ai_services"    -> "ai-services"

\* The mount paths C7 names.
C7_ClaimedPath(v, g) ==
    IF v = "main" THEN <<"api", "v1", C7_Name(g)>> ELSE <<C7_Name(g)>>

\* C7 as stated: with the listener running, each group is reached at
\* /scenarios ... /ai-services in auth.py and at /api/v1/scenarios ...
\* /api/v1/ai-services in main.py, and no path reaches two groups.
C7_ReachableAtClaimedPaths ==
    (listener = "running" /\ variant \in {"auth", "main"}) =>
        /\ \A g \in Groups : GroupsCovering(mounts, C7_ClaimedPath(variant, g)) = {g}
        /\ \A p \in Paths : Cardinality(GroupsCovering(mounts, p)) <= 1

\* The mount paths of the sources: main.py mounts the AI services at /api/v1/ai.
C7_SourcePath(v, g) ==
    IF v = "main" /\ g = "ai_services" THEN <<"api", "v1", "ai">>
    ELSE C7_ClaimedPath(v, g)

\* C7 amended: as stated, except that main.py serves the AI services under
\* /api/v1/ai (not /api/v1/ai-services); a path under a group's mount path
\* reaches that group and no other.
C7_ReachableAtSourcePaths ==
    (listener = "running" /\ variant \in {"auth", "main"}) =>
        /\ \A g \in Groups : GroupsCovering(mounts, C7_SourcePath(variant, g)) = {g}
        /\ \A g, h \in Groups :
              g # h => C7_SourcePath(variant, g) # C7_SourcePath(variant, h)
        /\ \A p \in Paths : Cardinality(GroupsCovering(mounts, p)) <= 1

C7_Witness ==
    /\ variant = "main"
    /\ listener = "running"
    /\ lastPath = <<"api", "v1", "ai">>
    /\ response.handler = "ai_services"

\* C8: in main.py a start is attempted only after the "Starting ..." line
\* was logged, and the "started successfully" line is in the log only when
\* app.run has returned without raising: never while the listener is
\* starting or serving and never in a run where app.run raised.
C8_SuccessOnlyAfterReturn ==
    variant = "main" =>
        /\ (startAttempts > 0 =>
              Logged(log, "info", "Starting automation framework management service..."))
        /\ (Logged(log, "info", "Management service started successfully.") =>
              /\ listener = "stopped"
              /\ raisedAt # "run")

C8_Witness ==
    /\ variant = "main"
    /\ Logged(log, "info", "Management service started successfully.")
    /\ exitCode = <<0>>

\* The statements of each variant that precede its try block.
C9_BeforeTry(v) ==
    CASE v = "main"       -> {"app", "cors", "config", "logger", "attach"}
      [] v = "services"   -> {"header", "app", "attach", "logger", "info_starting"}
      [] v = "tests_init" -> {"header", "app", "logger", "attach"}
      [] OTHER            -> {}

C10_RunnerBeforeListener ==
    variant = "common_types" =>
        /\ (startAttempts > 0 => runner = "initialized")
        /\ (listener \in {"starting", "running"} => runner = "initialized")
        /\ (raisedAt \in {"runner_new", "runner_init"} =>
              startAttempts = 0 /\ listener = "idle")

C10_Witness ==
    /\ variant = "common_types"
    /\ listener = "running"
    /\ runner = "initialized"
    /\ served = 1

====
